---------------------------- MODULE Spec2Model ----------------------------
(***************************************************************************)
(* A model of the Series computation engine of black-jack.                 *)
(*                                                                         *)
(*   src/src/series/mod.rs     Series: constructors, index assignment,     *)
(*                             append, astype, sum, mean, min, max, mode,  *)
(*                             var, dtype                                  *)
(*   src/src/series/rolling.rs Rolling: new, sum, mean, var, std, median,  *)
(*                             min, max                                    *)
(*                                                                         *)
(* Numbers.  A float is an exact rational [k, p, q]: k = "num" and the     *)
(* value p/q in lowest terms with q > 0, or k = "nan".  An integer is a    *)
(* TLA+ integer; the values used are far from the 32-bit limits.           *)
(*                                                                         *)
(* A DataElement is a record [t, k, p, q]:                                 *)
(*   t  the active variant: "I32" "I64" "F32" "F64" "STRING" "None"        *)
(*   k  "num"  the number p/q (q = 1 for the integer variants; for STRING  *)
(*             the text is the decimal spelling of p/q)                    *)
(*      "nan"  the float NaN (for STRING the text "NaN")                   *)
(*      "word" a text that spells no number (p identifies the text)        *)
(*      "none" the missing marker (for STRING the text of the marker)      *)
(***************************************************************************)
EXTENDS Integers, Sequences, FiniteSets, TLC

VARIABLES
    values,   \* Series.values: the ordered elements
    dtype,    \* Series.dtype: Option<DType>, NoDtype or Some(d)
    name,     \* Series.name: Option<String>
    call,     \* the last call made on the series and what it returned
    src,      \* the values of the Series a Rolling borrows
    rolled,   \* the last rolling call and what it returned
    other,    \* a second Series: the right-hand side of ==, a clone
    heap,     \* the boxes into_raw has leaked, by their address
    par       \* the window tasks of a parallel rolling call

vars == <<values, dtype, name, call, src, rolled, other, heap, par>>

-----------------------------------------------------------------------------
(* Bounds *)

MaxLen == 2          \* longest series the mutating calls are explored on
MaxAggLen == 3       \* longest series the aggregations are explored on
MaxRollLen == 4      \* longest rolling source explored
MaxEqLen == 2        \* longest series compared with ==
MaxBoxes == 1        \* addresses the allocator hands out
MaxGroupLen == 3     \* longest value and key series grouped
MaxArithLen == 2     \* longest operand of a Series-Series operator
MaxParLen == 3       \* longest source of a rolling median run task by task

-----------------------------------------------------------------------------
(* Exact rationals standing for f64 / f32 values *)

Abs(x) == IF x < 0 THEN -x ELSE x

RECURSIVE Gcd(_, _)
Gcd(a, b) == IF b = 0 THEN a ELSE Gcd(b, a % b)

NaN == [k |-> "nan", p |-> 0, q |-> 1]

\* p/q in lowest terms with a positive denominator; x/0 is modelled for the
\* only case the program produces, 0.0/0.0 = NaN.
Rat(p, q) ==
    IF q = 0 THEN NaN
    ELSE LET g == Gcd(Abs(p), Abs(q))
             s == IF q < 0 THEN -1 ELSE 1
         IN  [k |-> "num", p |-> s * (p \div g), q |-> s * (q \div g)]

FromInt(i) == [k |-> "num", p |-> i, q |-> 1]

FAdd(a, b) ==
    IF a.k = "nan" \/ b.k = "nan" THEN NaN
    ELSE Rat(a.p * b.q + b.p * a.q, a.q * b.q)

FSub(a, b) ==
    IF a.k = "nan" \/ b.k = "nan" THEN NaN
    ELSE Rat(a.p * b.q - b.p * a.q, a.q * b.q)

FMul(a, b) ==
    IF a.k = "nan" \/ b.k = "nan" THEN NaN
    ELSE Rat(a.p * b.p, a.q * b.q)

\* IEEE division for the cases the program meets: x/y with y # 0, and 0/0.
FDiv(a, b) ==
    IF a.k = "nan" \/ b.k = "nan" THEN NaN
    ELSE Rat(a.p * b.q, a.q * b.p)

\* `as i64`: truncation toward zero
Trunc(f) ==
    IF f.p < 0 THEN -((-f.p) \div f.q) ELSE f.p \div f.q

-----------------------------------------------------------------------------
(* Value model: DType and DataElement *)

DTypes == {"I32", "I64", "F32", "F64", "STRING", "None"}
IntTypes == {"I32", "I64"}
FloatTypes == {"F32", "F64"}

NoDtype == <<>>
Some(d) == <<d>>

I32(i) == [t |-> "I32", k |-> "num", p |-> i, q |-> 1]
I64(i) == [t |-> "I64", k |-> "num", p |-> i, q |-> 1]
F32(f) == [t |-> "F32", k |-> f.k, p |-> f.p, q |-> f.q]
F64(f) == [t |-> "F64", k |-> f.k, p |-> f.p, q |-> f.q]
Text(k, p, q) == [t |-> "STRING", k |-> k, p |-> p, q |-> q]
Missing == [t |-> "None", k |-> "none", p |-> 0, q |-> 1]

\* DataElement::dtype(): the natural type tag of an element
DTypeOf(e) == e.t

\* DataElement::is_nan(): true only for a floating NaN
IsNan(e) == e.t \in FloatTypes /\ e.k = "nan"

\* f64::from(DataElement): numeric cast; a text is parsed, and a text that
\* spells no number gives NaN, as does the missing marker.
ToFloat(e) ==
    IF e.k = "num" THEN Rat(e.p, e.q) ELSE NaN

\* The integers an integer conversion may give where the cast is not a
\* numeric one (a NaN, a text): the outcome is not fixed by the sources.
CastJunk == {0, 9}

\* i64::from(DataElement): numeric cast, truncating a float; the missing
\* marker has the zero representation; u is what a NaN or a text gives.
ToInt(e, u) ==
    IF e.t \in IntTypes THEN e.p
    ELSE IF e.t \in FloatTypes /\ e.k = "num" THEN Trunc(Rat(e.p, e.q))
    ELSE IF e.t = "None" THEN 0
    ELSE u

\* String::from(DataElement): a text stays as it is, anything else is
\* formatted ("1", "1.5", "NaN").
ToText(e) == Text(e.k, e.p, e.q)

\* DataElement::from(v) for v of the primitive type T
MkInt(T, i) == [t |-> T, k |-> "num", p |-> i, q |-> 1]
MkFloat(T, f) == [t |-> T, k |-> f.k, p |-> f.p, q |-> f.q]

-----------------------------------------------------------------------------
(* Series: constructors *)

\* Series::arange(start, stop) over i32: every element I32, dtype Some(I32)
\* even when the range is empty.
Arange(start, stop) ==
    [name |-> <<>>,
     dtype |-> Some("I32"),
     values |-> [i \in 1..(IF stop > start THEN stop - start ELSE 0) |->
                    I32(start + i - 1)]]

\* Series::from_vec(vec): vec holds values of one primitive type, given here
\* as the elements DataElement::from makes of them.
FromVec(vec) ==
    [name |-> <<>>,
     dtype |-> IF Len(vec) > 0 THEN Some(DTypeOf(vec[1])) ELSE NoDtype,
     values |-> vec]

\* Series::from_data_elements(vec): no check of the elements' types
FromDataElements(vec) ==
    [name |-> <<>>, dtype |-> NoDtype, values |-> vec]

-----------------------------------------------------------------------------
(* Series::astype *)

\* the guard without its is_nan() half
AstypeRejectsStringOnly(e, dt) ==
    dt \in IntTypes /\ DTypeOf(e) = "STRING"

\* the guard of the I64 and I32 arms
AstypeRejects(e, dt) ==
    dt \in IntTypes /\ (DTypeOf(e) = "STRING" \/ IsNan(e))

\* the value one arm of the match assigns to *val; the integer arms are
\* reached only past their guard, where the cast is a numeric one
Convert(e, dt) ==
    CASE dt = "F64" -> MkFloat("F64", ToFloat(e))
      [] dt = "I64" -> MkInt("I64", ToInt(e, 0))
      [] dt = "F32" -> MkFloat("F32", ToFloat(e))
      [] dt = "I32" -> MkInt("I32", ToInt(e, 0))
      [] dt = "STRING" -> ToText(e)
      [] dt = "None" -> Missing

\* the for loop over &mut self.values, from element i on: each element is
\* overwritten as it is visited, and the first rejected one returns Err.
RECURSIVE AstypeLoop(_, _, _)
AstypeLoop(vals, dt, i) ==
    IF i > Len(vals) THEN [ok |-> TRUE, values |-> vals]
    ELSE IF AstypeRejects(vals[i], dt) THEN [ok |-> FALSE, values |-> vals]
    ELSE AstypeLoop([vals EXCEPT ![i] = Convert(vals[i], dt)], dt, i + 1)

\* astype without the final self.dtype = Some(dtype)
AstypeKeepsDtype(vals, dtp, dt) ==
    LET r == AstypeLoop(vals, dt, 1)
    IN  [ok |-> r.ok, values |-> r.values, dtype |-> dtp]

\* astype on a series with elements vals and cached dtype dtp
Astype(vals, dtp, dt) ==
    LET r == AstypeLoop(vals, dt, 1)
    IN  [ok |-> r.ok,
         values |-> r.values,
         dtype |-> IF r.ok THEN Some(dt) ELSE dtp]

-----------------------------------------------------------------------------
(* Series: aggregations.  A number of the output type T is held as a      *)
(* rational, an integer being p/1.                                         *)

\* T::from(v.clone()) for the output type T
Into(T, e, u) ==
    IF T \in IntTypes THEN FromInt(ToInt(e, u)) ELSE ToFloat(e)

\* the two filters of sum: no strings, no NaNs
NotString(e) == DTypeOf(e) # "STRING"

NotNan(e) == ~IsNan(e)

\* the filters without the NaN one
SumFilterStringsOnly(vals) == SelectSeq(vals, NotString)

SumFilter(vals) == SelectSeq(SelectSeq(vals, NotString), NotNan)

\* Iterator::sum() of the converted elements, zero for none
RECURSIVE SumOf(_, _, _)
SumOf(vals, T, u) ==
    IF Len(vals) = 0 THEN FromInt(0)
    ELSE FAdd(Into(T, Head(vals), u), SumOf(Tail(vals), T, u))

\* Series::sum::<T>()
Sum(vals, T, u) == SumOf(SumFilter(vals), T, u)

\* a mean over the elements the filters of sum leave
MeanOfRemaining(vals) ==
    [ok |-> TRUE,
     out |-> FDiv(Sum(vals, "F64", 0), FromInt(Len(SumFilter(vals))))]

\* Series::mean(): Ok(total / count), count the length of the series
Mean(vals) ==
    [ok |-> TRUE, out |-> FDiv(Sum(vals, "F64", 0), FromInt(Len(vals)))]

\* Iterator::min() under Ord of T: None for no element
RECURSIVE IterMin(_, _, _)
IterMin(vals, T, u) ==
    IF Len(vals) = 1 THEN ToInt(vals[1], u)
    ELSE LET m == IterMin(Tail(vals), T, u)
             h == ToInt(Head(vals), u)
         IN  IF h <= m THEN h ELSE m

RECURSIVE IterMax(_, _, _)
IterMax(vals, T, u) ==
    IF Len(vals) = 1 THEN ToInt(vals[1], u)
    ELSE LET m == IterMax(Tail(vals), T, u)
             h == ToInt(Head(vals), u)
         IN  IF h > m THEN h ELSE m

\* min taking the first element for the least
MinFirst(vals, T, u) ==
    IF Len(vals) = 0 THEN [ok |-> FALSE, out |-> 0]
    ELSE [ok |-> TRUE, out |-> ToInt(vals[1], u)]

\* Series::min::<T>(), T an integer type (T: Ord)
Min(vals, T, u) ==
    IF Len(vals) = 0 THEN [ok |-> FALSE, out |-> 0]
    ELSE [ok |-> TRUE, out |-> IterMin(vals, T, u)]

\* Series::max::<T>(), T an integer type (T: Ord)
Max(vals, T, u) ==
    IF Len(vals) = 0 THEN [ok |-> FALSE, out |-> 0]
    ELSE [ok |-> TRUE, out |-> IterMax(vals, T, u)]

\* stats::variance of the converted values: the population variance
Variance(vals, T, u) ==
    LET n == FromInt(Len(vals))
        m == FDiv(SumOf(vals, T, u), n)
        RECURSIVE Sq(_)
        Sq(i) == IF i > Len(vals) THEN FromInt(0)
                 ELSE LET d == FSub(Into(T, vals[i], u), m)
                      IN  FAdd(FMul(d, d), Sq(i + 1))
    IN  FDiv(Sq(1), n)

\* Series::var::<T>(): the f64 variance handed back as a T
Var(vals, T, u) ==
    IF Len(vals) = 0 THEN [ok |-> FALSE, out |-> NaN]
    ELSE [ok |-> TRUE, out |-> Into(T, MkFloat("F64", Variance(vals, T, u)), u)]

\* the integers of an ascending sequence, from a set
RECURSIVE Ascending(_)
Ascending(S) ==
    IF S = {} THEN <<>>
    ELSE LET lo == CHOOSE x \in S : \A y \in S : x <= y
         IN  <<lo>> \o Ascending(S \ {lo})

\* stats::modes of the converted values: the values met most often
Modes(vals, T, u) ==
    LET conv == [i \in DOMAIN vals |-> ToInt(vals[i], u)]
        Count(x) == Cardinality({i \in DOMAIN conv : conv[i] = x})
        seen == {conv[i] : i \in DOMAIN conv}
    IN  Ascending({x \in seen : \A y \in seen : Count(y) <= Count(x)})

\* Series::mode::<T>(), T an integer type: the modes as a series cast to T
Mode(vals, T, u) ==
    IF Len(vals) = 0 THEN [ok |-> FALSE, out |-> <<>>]
    ELSE LET m == Modes(vals, T, u)
             modes == FromVec([i \in DOMAIN m |-> MkInt(T, m[i])])
             r == Astype(modes.values, modes.dtype, T)
         IN  [ok |-> r.ok, out |-> r.values]

-----------------------------------------------------------------------------
(* Series: the state machine *)

\* the values index assignment, append and from_data_elements are given
InputElems ==
    { I32(1), I64(2), F32(Rat(-3, 2)), F64(NaN), F64(Rat(1, 2)),
      Text("num", 5, 2), Text("word", 1, 1), Missing }

\* Seq(S) up to length n
SeqsUpTo(S, n) == UNION { [1..m -> S] : m \in 0..n }

\* vectors of one primitive type, as from_vec takes
Homogeneous(n) ==
    { v \in SeqsUpTo(InputElems \ {Missing}, n) :
        \A i \in DOMAIN v : DTypeOf(v[i]) = DTypeOf(v[1]) }

\* the series the three constructors build, up to length n
Constructed(n) ==
    { Arange(a, b) : a \in 0..1, b \in 0..n }
      \cup { FromVec(v) : v \in Homogeneous(n) }
      \cup { FromDataElements(v) : v \in SeqsUpTo(InputElems, n) }

\* the record of a call: its operation, its type argument, the integer u an
\* undetermined cast gave during it, whether it returned Ok (FALSE for Err
\* and for a panic), and the value it returned
Called(op, arg, u, ok, out) ==
    [op |-> op, arg |-> arg, u |-> u, ok |-> ok, out |-> out]

NoRoll ==
    [op |-> "none", window |-> 0, ddof |-> 0, bad |-> {}, ok |-> TRUE,
     panic |-> FALSE, out |-> <<>>]

\* no second series, no leaked box, no parallel call
NoOther == <<>>

NoHeap == <<>>

NoPar == [phase |-> "idle"]

Unused == other = NoOther /\ heap = NoHeap /\ par = NoPar

InitSeries(S) ==
    /\ \E s \in S :
          /\ values = s.values
          /\ dtype = s.dtype
          /\ name = s.name
    /\ call = Called("new", "None", 0, TRUE, 0)

Init ==
    /\ InitSeries(Constructed(MaxLen))
    /\ src = <<>>
    /\ rolled = NoRoll
    /\ Unused

\* series[idx] = e (IndexMut): a panic when idx is out of range
IndexAssign ==
    \E i \in 1..MaxLen, e \in InputElems :
        /\ IF i <= Len(values)
              THEN /\ values' = [values EXCEPT ![i] = e]
                   /\ call' = Called("index_mut", "None", 0, TRUE, 0)
              ELSE /\ values' = values
                   /\ call' = Called("index_mut", "None", 0, FALSE, 0)
        /\ UNCHANGED <<dtype, name, src, rolled, other, heap, par>>

\* series.append(val)
AppendCall ==
    \E e \in InputElems :
        /\ Len(values) < MaxLen
        /\ values' = Append(values, e)
        /\ call' = Called("append", "None", 0, TRUE, 0)
        /\ UNCHANGED <<dtype, name, src, rolled, other, heap, par>>

\* series.astype(dt)
AstypeCall ==
    \E dt \in DTypes :
        LET r == Astype(values, dtype, dt)
        IN  /\ values' = r.values
            /\ dtype' = r.dtype
            /\ call' = Called("astype", dt, 0, r.ok, 0)
            /\ UNCHANGED <<name, src, rolled, other, heap, par>>

Next ==
    \/ IndexAssign
    \/ AppendCall
    \/ AstypeCall

Spec == Init /\ [][Next]_vars

-----------------------------------------------------------------------------
(* Series: the aggregations applied to a constructed series.  They leave  *)
(* the series as it is, so a behaviour makes one call: a second call sees  *)
(* the state the first one saw.                                            *)

NumTypes == {"I64", "F64"}

Fresh == call.op = "new"

InitAgg ==
    /\ InitSeries(Constructed(MaxAggLen))
    /\ src = <<>>
    /\ rolled = NoRoll
    /\ Unused

\* series.sum::<T>()
SumCall ==
    /\ Fresh
    /\ \E T \in NumTypes, u \in CastJunk :
          /\ call' = Called("sum", T, u, TRUE, Sum(values, T, u))
          /\ UNCHANGED <<values, dtype, name, src, rolled, other, heap, par>>

\* series.mean()
MeanCall ==
    /\ Fresh
    /\ LET r == Mean(values)
       IN  /\ call' = Called("mean", "F64", 0, r.ok, r.out)
           /\ UNCHANGED <<values, dtype, name, src, rolled, other, heap, par>>

\* series.min::<T>()
MinCall ==
    /\ Fresh
    /\ \E T \in IntTypes, u \in CastJunk :
          LET r == Min(values, T, u)
          IN  /\ call' = Called("min", T, u, r.ok, r.out)
              /\ UNCHANGED <<values, dtype, name, src, rolled, other, heap, par>>

\* series.max::<T>()
MaxCall ==
    /\ Fresh
    /\ \E T \in IntTypes, u \in CastJunk :
          LET r == Max(values, T, u)
          IN  /\ call' = Called("max", T, u, r.ok, r.out)
              /\ UNCHANGED <<values, dtype, name, src, rolled, other, heap, par>>

\* series.mode::<T>()
ModeCall ==
    /\ Fresh
    /\ \E T \in IntTypes, u \in CastJunk :
          LET r == Mode(values, T, u)
          IN  /\ call' = Called("mode", T, u, r.ok, r.out)
              /\ UNCHANGED <<values, dtype, name, src, rolled, other, heap, par>>

\* series.var::<T>()
VarCall ==
    /\ Fresh
    /\ \E T \in NumTypes, u \in CastJunk :
          LET r == Var(values, T, u)
          IN  /\ call' = Called("var", T, u, r.ok, r.out)
              /\ UNCHANGED <<values, dtype, name, src, rolled, other, heap, par>>

NextAgg ==
    \/ SumCall
    \/ MeanCall
    \/ MinCall
    \/ MaxCall
    \/ ModeCall
    \/ VarCall

SpecAgg == InitAgg /\ [][NextAgg]_vars

-----------------------------------------------------------------------------
(* Rolling: the windowed aggregations of a Series<T> of numbers.  A        *)
(* Rolling borrows its source, so a behaviour makes one call on it.        *)

None == <<>>
SomeOf(x) == <<x>>

\* sqrt of a float: exact where the root is rational, else the surd kept
\* as [k |-> "sqrt"] of the radicand
Sqrt(f) ==
    IF f.k = "nan" \/ f.p < 0 THEN NaN
    ELSE IF /\ \E r \in 0..f.p : r * r = f.p
            /\ \E r \in 1..f.q : r * r = f.q
         THEN Rat(CHOOSE r \in 0..f.p : r * r = f.p,
                  CHOOSE r \in 1..f.q : r * r = f.q)
         ELSE [k |-> "sqrt", p |-> f.p, q |-> f.q]

\* the sum of a slice of numbers of type T
RECURSIVE SliceSum(_)
SliceSum(xs) ==
    IF Len(xs) = 0 THEN 0 ELSE Head(xs) + SliceSum(Tail(xs))

\* funcs::variance(slice, ddof): sum of squared distances to the mean over
\* n - ddof, None for an empty slice
FuncsVariance(xs, ddof) ==
    IF Len(xs) = 0 THEN None
    ELSE LET n == Len(xs)
             m == Rat(SliceSum(xs), n)
             RECURSIVE Sq(_)
             Sq(i) == IF i > n THEN FromInt(0)
                      ELSE LET d == FSub(FromInt(xs[i]), m)
                           IN  FAdd(FMul(d, d), Sq(i + 1))
         IN  SomeOf(FDiv(Sq(1), FromInt(n - ddof)))

\* funcs::std(slice, ddof): the root of the variance
FuncsStd(xs, ddof) ==
    LET v == FuncsVariance(xs, ddof)
    IN  IF v = None THEN None ELSE SomeOf(Sqrt(v[1]))

\* funcs::min(slice) and funcs::max(slice): None for an empty slice
FuncsMin(xs) ==
    IF Len(xs) = 0 THEN None
    ELSE SomeOf(CHOOSE x \in {xs[i] : i \in DOMAIN xs} :
                    \A i \in DOMAIN xs : x <= xs[i])

FuncsMax(xs) ==
    IF Len(xs) = 0 THEN None
    ELSE SomeOf(CHOOSE x \in {xs[i] : i \in DOMAIN xs} :
                    \A i \in DOMAIN xs : x >= xs[i])

\* a slice sorted ascending
RECURSIVE Sorted(_)
Sorted(xs) ==
    IF Len(xs) = 0 THEN <<>>
    ELSE LET k == CHOOSE i \in DOMAIN xs : \A j \in DOMAIN xs : xs[i] <= xs[j]
         IN  <<xs[k]>> \o Sorted([j \in 1..(Len(xs) - 1) |->
                                     IF j < k THEN xs[j] ELSE xs[j + 1]])

\* stats::median: the middle of the sorted values, the mean of the two
\* middle ones for an even count, None for no value
StatsMedian(xs) ==
    IF Len(xs) = 0 THEN None
    ELSE LET s == Sorted(xs)
             n == Len(xs)
         IN  IF n % 2 = 1 THEN SomeOf(FromInt(s[(n + 1) \div 2]))
             ELSE SomeOf(Rat(s[n \div 2] + s[n \div 2 + 1], 2))

RollKinds == {"sum", "mean", "var", "std", "median", "min", "max"}

\* the Option the closure's match looks at for one window
WindowValue(kind, xs, ddof) ==
    CASE kind = "sum" -> SomeOf(FromInt(SliceSum(xs)))
      [] kind = "mean" -> SomeOf(FDiv(FromInt(SliceSum(xs)), FromInt(Len(xs))))
      [] kind = "var" -> FuncsVariance(xs, ddof)
      [] kind = "std" -> FuncsStd(xs, ddof)
      [] kind = "median" -> StatsMedian(xs)
      [] kind = "min" ->
            (IF FuncsMin(xs) = None THEN None ELSE SomeOf(FromInt(FuncsMin(xs)[1])))
      [] kind = "max" ->
            (IF FuncsMax(xs) = None THEN None ELSE SomeOf(FromInt(FuncsMax(xs)[1])))

\* the padding one NaN too long (0..window)
RollNansOneMore(window) == [i \in 1..window |-> NaN]

\* Rolling::new: nans = (0..window - 1) mapped to NaN
RollNans(window) == [i \in 1..(window - 1) |-> NaN]

\* &self.series.values[idx..idx + self.window], idx counted from 0
WindowSlice(vals, idx, window) == SubSeq(vals, idx + 1, idx + window)

\* the closure mapped over 0..len + 1 - window: Ok of the window's value, or
\* Err when the window's Option is None; bad holds the windows whose
\* primitive (to_f64 of the element type, funcs::*, stats::median) declines
WindowResults(vals, window, kind, ddof, bad) ==
    [j \in 1..(Len(vals) + 1 - window) |->
        IF (j - 1) \in bad THEN None
        ELSE WindowValue(kind, WindowSlice(vals, j - 1, window), ddof)]

\* a collect that skips the Err items and keeps the rest
CollectDroppingErrs(results) ==
    [ok |-> TRUE,
     vals |-> LET IsSome(r) == r # None
                  kept == SelectSeq(results, IsSome)
              IN  [j \in DOMAIN kept |-> kept[j][1]]]

\* .collect::<Result<Vec<f64>, _>>(): Err as soon as one item is Err
Collect(results) ==
    IF \E j \in DOMAIN results : results[j] = None
        THEN [ok |-> FALSE, vals |-> <<>>]
        ELSE [ok |-> TRUE, vals |-> [j \in DOMAIN results |-> results[j][1]]]

\* a rolling call that gives up on a window one longer than the source
RollRejectsEmptyRange(vals, window, kind, ddof, bad) ==
    IF window = 0 \/ window > Len(vals)
        THEN [op |-> kind, window |-> window, ddof |-> ddof, bad |-> bad,
              ok |-> FALSE, panic |-> TRUE, out |-> <<>>]
        ELSE LET c == Collect(WindowResults(vals, window, kind, ddof, bad))
             IN  [op |-> kind, window |-> window, ddof |-> ddof, bad |-> bad,
                  ok |-> c.ok, panic |-> FALSE,
                  out |-> IF c.ok THEN RollNans(window) \o c.vals ELSE <<>>]

\* series.rolling(window).<kind>(): the usize subtractions window - 1 and
\* len + 1 - window panic below zero; `?` returns the Err of collect; else
\* Ok(Series::from_vec(vals)) with vals the nans extended by the windows
Roll(vals, window, kind, ddof, bad) ==
    IF window = 0 \/ window > Len(vals) + 1
        THEN [op |-> kind, window |-> window, ddof |-> ddof, bad |-> bad,
              ok |-> FALSE, panic |-> TRUE, out |-> <<>>]
        ELSE LET c == Collect(WindowResults(vals, window, kind, ddof, bad))
             IN  [op |-> kind, window |-> window, ddof |-> ddof, bad |-> bad,
                  ok |-> c.ok, panic |-> FALSE,
                  out |-> IF c.ok THEN RollNans(window) \o c.vals ELSE <<>>]

RollVals == {1, 2, 6}
Windows == 0..(MaxRollLen + 2)
Ddofs == {0, 1}

\* the windows of a source of length n, by the index they start at
WindowStarts(n, window) == 0..(n - window)

InitRolling ==
    /\ InitSeries({FromDataElements(<<>>)})
    /\ src \in SeqsUpTo(RollVals, MaxRollLen)
    /\ rolled = NoRoll
    /\ Unused

RollingCall(kind, ddofs) ==
    /\ rolled = NoRoll
    /\ \E window \in Windows, ddof \in ddofs :
          \E bad \in SUBSET WindowStarts(Len(src), window) :
              /\ rolled' = Roll(src, window, kind, ddof, bad)
              /\ UNCHANGED <<values, dtype, name, call, src, other, heap, par>>

\* Rolling::sum
RollSum == RollingCall("sum", {0})

\* Rolling::mean
RollMean == RollingCall("mean", {0})

\* Rolling::var(ddof)
RollVar == RollingCall("var", Ddofs)

\* Rolling::std(ddof)
RollStd == RollingCall("std", Ddofs)

\* Rolling::median
RollMedian == RollingCall("median", {0})

\* Rolling::min
RollMin == RollingCall("min", {0})

\* Rolling::max
RollMax == RollingCall("max", {0})

NextRolling ==
    \/ RollSum
    \/ RollMean
    \/ RollVar
    \/ RollStd
    \/ RollMedian
    \/ RollMin
    \/ RollMax

SpecRolling == InitRolling /\ [][NextRolling]_vars

-----------------------------------------------------------------------------
(* Properties of astype and of the cached dtype, under Spec *)

IsBadForInt(e) == DTypeOf(e) = "STRING" \/ IsNan(e)

\* C1: whenever astype returns an error, every element of the series is
\* the same as before the call.
C1_AstypeAllOrNothing ==
    [][(call'.op = "astype" /\ ~call'.ok) => values' = values]_vars

\* C2: the cached dtype is Some(d) only if every element stored has the
\* natural type tag d.
C2_DtypeMatchesElements ==
    \A d \in DTypes :
        dtype = Some(d) => \A i \in DOMAIN values : DTypeOf(values[i]) = d

\* C3: after astype(T) returned Ok the dtype query gives Some(T) and every
\* element carries the variant of T.
C3_AstypeOkSetsDtype ==
    (call.op = "astype" /\ call.ok) =>
        /\ dtype = Some(call.arg)
        /\ \A i \in DOMAIN values : DTypeOf(values[i]) = call.arg

\* astype(I64) returned Ok on a series of two different elements
C3_Witness ==
    /\ call.op = "astype"
    /\ call.ok
    /\ call.arg = "I64"
    /\ Len(values) = 2
    /\ values[1] # values[2]

\* C4: astype(I32) and astype(I64) return an error whenever some element,
\* at whatever position, is a text or a floating NaN.
C4_AstypeIntRejects ==
    [][(/\ call'.op = "astype"
        /\ call'.arg \in IntTypes
        /\ \E i \in DOMAIN values : IsBadForInt(values[i]))
       => ~call'.ok]_vars

\* astype to an integer type failed on a NaN in the second position, after
\* the first element was cast
C4_Witness ==
    /\ call.op = "astype"
    /\ call.arg \in IntTypes
    /\ ~call.ok
    /\ Len(values) = 2
    /\ DTypeOf(values[1]) = call.arg
    /\ IsNan(values[2])

-----------------------------------------------------------------------------
(* Properties of the rolling aggregations, under SpecRolling *)

\* the source elements at indices lo..hi, counted from 0
SourceAt(lo, hi) == [j \in 1..(hi - lo + 1) |-> src[lo + j]]

\* C5: for a window w with 1 <= w <= n, a successful rolling result has
\* length n, NaN at positions 0..w-2, and at position i >= w-1 the
\* aggregate of the source elements at indices i-w+1..i.
C5_RollingShape ==
    (/\ rolled.op \in RollKinds
     /\ rolled.ok
     /\ 1 <= rolled.window
     /\ rolled.window <= Len(src)) =>
        LET w == rolled.window
            n == Len(src)
        IN  /\ Len(rolled.out) = n
            /\ \A i \in 0..(w - 2) : rolled.out[i + 1] = NaN
            /\ \A i \in (w - 1)..(n - 1) :
                  SomeOf(rolled.out[i + 1]) =
                      WindowValue(rolled.op, SourceAt(i - w + 1, i), rolled.ddof)

\* a rolling mean of window 3 over four elements, the two windows differing
C5_Witness ==
    /\ rolled.op = "mean"
    /\ rolled.ok
    /\ rolled.window = 3
    /\ Len(src) = 4
    /\ rolled.out[3] # rolled.out[4]

\* C6: if the aggregate of any single window fails, the rolling operation
\* returns an error and no Series: neither the padding nor the values of
\* the windows that succeeded.
C6_RollingAborts ==
    (/\ rolled.op \in RollKinds
     /\ ~rolled.panic
     /\ rolled.bad # {}) =>
        /\ ~rolled.ok
        /\ rolled.out = <<>>

\* a rolling variance of window 2 whose second window failed after the
\* first one succeeded
C6_Witness ==
    /\ rolled.op = "var"
    /\ rolled.window = 2
    /\ Len(src) = 4
    /\ rolled.bad = {1}
    /\ ~rolled.ok

\* C17: for a source of length n the usize subtractions underflow exactly
\* for w = 0 and w > n + 1; for 1 <= w <= n + 1 the w - 1 pads and the
\* n + 1 - w windows make n entries of a successful result, and w = n + 1
\* returns Ok with n NaN entries and no computed window.
C17_WindowRange ==
    rolled.op \in RollKinds =>
        LET w == rolled.window
            n == Len(src)
        IN  /\ rolled.panic <=> (w = 0 \/ w > n + 1)
            /\ ~rolled.panic =>
                  /\ Len(RollNans(w)) = w - 1
                  /\ Cardinality(WindowStarts(n, w)) = n + 1 - w
                  /\ rolled.ok => Len(rolled.out) = n
            /\ w = n + 1 =>
                  /\ rolled.ok
                  /\ WindowStarts(n, w) = {}
                  /\ rolled.out = [i \in 1..n |-> NaN]

\* a rolling call with a window one longer than a source of three elements
C17_Witness ==
    /\ rolled.op \in RollKinds
    /\ Len(src) = 3
    /\ rolled.window = 4
    /\ rolled.ok
    /\ rolled.out = <<NaN, NaN, NaN>>

-----------------------------------------------------------------------------
(* Properties of the aggregations, under SpecAgg *)

\* the positions of the elements that are neither text nor floating NaN
EligibleAt == { i \in DOMAIN values : DTypeOf(values[i]) # "STRING" /\ ~IsNan(values[i]) }

\* the sum of the values at the positions I, converted to T
RECURSIVE SumAt(_, _, _)
SumAt(I, T, u) ==
    IF I = {} THEN FromInt(0)
    ELSE LET i == CHOOSE x \in I : TRUE
         IN  FAdd(Into(T, values[i], u), SumAt(I \ {i}, T, u))

\* C7: sum is the sum of the converted values of exactly the elements that
\* are neither text nor floating NaN, and zero when none is left.
C7_SumOfEligible ==
    call.op = "sum" =>
        /\ call.ok
        /\ call.out = SumAt(EligibleAt, call.arg, call.u)
        /\ EligibleAt = {} => call.out = FromInt(0)

\* a sum over a series holding a text, a NaN and a number
C7_Witness ==
    /\ call.op = "sum"
    /\ \E i \in DOMAIN values : DTypeOf(values[i]) = "STRING"
    /\ \E i \in DOMAIN values : IsNan(values[i])
    /\ EligibleAt # {}
    /\ call.out # FromInt(0)

\* C8: mean never returns Ok for a series of zero length.
C8_MeanOfEmptyFails ==
    (call.op = "mean" /\ Len(values) = 0) => ~call.ok

\* C16: mean is the sum of the elements that are neither text nor floating
\* NaN, divided by the length of the whole series and not by the number of
\* elements summed; without a text or NaN element that is sum / len.
C16_MeanDividesByLength ==
    call.op = "mean" =>
        /\ call.ok
        /\ call.out = FDiv(SumAt(EligibleAt, "F64", 0), FromInt(Len(values)))
        /\ EligibleAt = DOMAIN values =>
              call.out = FDiv(SumAt(DOMAIN values, "F64", 0), FromInt(Len(values)))

\* a mean over a series with an element left out of a non-zero sum
C16_Witness ==
    /\ call.op = "mean"
    /\ EligibleAt # {}
    /\ EligibleAt # DOMAIN values
    /\ SumAt(EligibleAt, "F64", 0) # FromInt(0)
    /\ call.out # FDiv(SumAt(EligibleAt, "F64", 0), FromInt(Cardinality(EligibleAt)))

\* C9: on a non-empty series min and max return Ok, and min <= v <= max
\* for the converted value v of every element.
C9_MinMaxBound ==
    (call.op \in {"min", "max"} /\ Len(values) > 0) =>
        /\ call.ok
        /\ \A i \in DOMAIN values :
              /\ call.op = "min" => call.out <= ToInt(values[i], call.u)
              /\ call.op = "max" => call.out >= ToInt(values[i], call.u)

\* a min that is below the first element of a series of three
C9_Witness ==
    /\ call.op = "min"
    /\ call.ok
    /\ Len(values) = 3
    /\ call.out < ToInt(values[1], call.u)

\* C10: min, max, mode and var return an error when the series has no
\* eligible element: when it is empty or holds only NaN elements.
C10_NoEligibleFails ==
    (/\ call.op \in {"min", "max", "mode", "var"}
     /\ \A i \in DOMAIN values : IsNan(values[i])) => ~call.ok

-----------------------------------------------------------------------------
(* Series: equality (derive(PartialEq)) of two series, either of which     *)
(* may have been named                                                     *)

\* DataElement == DataElement: the same variant holding an equal value; a
\* floating NaN equals nothing
ElemEq(a, b) == a = b /\ ~IsNan(a)

\* Vec<DataElement> == Vec<DataElement>
VecEq(v, w) ==
    /\ Len(v) = Len(w)
    /\ \A i \in DOMAIN v : ElemEq(v[i], w[i])

\* Series == Series as derived: every field of the struct is compared
SeriesEq(s, t) ==
    /\ s.name = t.name
    /\ VecEq(s.values, t.values)
    /\ s.dtype = t.dtype

\* the series held in values, dtype and name
Self == [name |-> name, dtype |-> dtype, values |-> values]

EqElems == { I32(1), I64(1), F64(NaN) }

Names == {"a", "b"}

\* the series compared: built by any constructor from a few elements
EqSeries ==
    { Arange(0, b) : b \in 0..MaxEqLen }
      \cup { FromVec(v) : v \in { x \in SeqsUpTo(EqElems, MaxEqLen) :
                                    \A i \in DOMAIN x : DTypeOf(x[i]) = DTypeOf(x[1]) } }
      \cup { FromDataElements(v) : v \in SeqsUpTo(EqElems, MaxEqLen) }

InitEq ==
    /\ InitSeries(EqSeries)
    /\ other \in EqSeries
    /\ src = <<>>
    /\ rolled = NoRoll
    /\ heap = NoHeap
    /\ par = NoPar

\* series.set_name(n) on the left-hand series
SetName ==
    \E n \in Names :
        /\ name' = <<n>>
        /\ call' = Called("set_name", "None", 0, TRUE, 0)
        /\ UNCHANGED <<values, dtype, src, rolled, other, heap, par>>

\* other.set_name(n) on the right-hand series
SetNameOther ==
    \E n \in Names :
        /\ other' = [other EXCEPT !.name = <<n>>]
        /\ call' = Called("set_name", "None", 0, TRUE, 0)
        /\ UNCHANGED <<values, dtype, name, src, rolled, heap, par>>

\* series == other
EqCall ==
    /\ call' = Called("eq", "None", 0, TRUE, SeriesEq(Self, other))
    /\ UNCHANGED <<values, dtype, name, src, rolled, other, heap, par>>

NextEq ==
    \/ SetName
    \/ SetNameOther
    \/ EqCall

SpecEq == InitEq /\ [][NextEq]_vars

\* C11: two series are equal if and only if their element sequences are
\* element-wise equal, whatever their names.
C11_EqualityIgnoresNames ==
    call.op = "eq" => (call.out <=> VecEq(values, other.values))

-----------------------------------------------------------------------------
(* Series: into_raw and from_raw.  heap maps the address of every live    *)
(* box to the series in it; other maps every address into_raw returned to *)
(* the clone the caller kept of the series it handed over (series.clone()  *)
(* in test_into_from_raw).  After into_raw the caller holds no series.     *)

Ptrs == 1..MaxBoxes

\* a box that keeps the elements only
BoxOfValuesOnly(s) == FromDataElements(s.values)

\* Box::new(self): the series is moved into the box as it is
BoxOf(s) == s

\* *Box::from_raw(ptr) for a live box: the series is moved out of it
Unbox(h, ptr) == h[ptr]

\* f with x mapped to v
Put(f, x, v) == [y \in DOMAIN f \cup {x} |-> IF y = x THEN v ELSE f[y]]

\* f without x
Drop(f, x) == [y \in DOMAIN f \ {x} |-> f[y]]

\* the caller holds a series
Held == call.op # "into_raw"

\* what reading a freed box may give
Garbage(ptr) == { FromDataElements(<<>>), Arange(0, 1), other[ptr] }

InitRaw ==
    /\ InitSeries(EqSeries)
    /\ other = NoOther
    /\ heap = NoHeap
    /\ src = <<>>
    /\ rolled = NoRoll
    /\ par = NoPar

\* series.set_name(n) while the caller holds the series
RawSetName == Held /\ SetName

\* let ptr = series.into_raw()
IntoRaw ==
    /\ Held
    /\ \E ptr \in Ptrs \ DOMAIN heap :
          /\ heap' = Put(heap, ptr, BoxOf(Self))
          /\ other' = Put(other, ptr, Self)
          /\ values' = <<>>
          /\ dtype' = NoDtype
          /\ name' = <<>>
          /\ call' = Called("into_raw", ptr, 0, TRUE, ptr)
          /\ UNCHANGED <<src, rolled, par>>

\* Series::from_raw(ptr) for an address into_raw returned: the box's series
\* when the box is live (ok), and undefined behaviour when it was taken
\* back already
FromRaw ==
    \E ptr \in DOMAIN other :
        \E s \in (IF ptr \in DOMAIN heap THEN {Unbox(heap, ptr)} ELSE Garbage(ptr)) :
            /\ values' = s.values
            /\ dtype' = s.dtype
            /\ name' = s.name
            /\ heap' = Drop(heap, ptr)
            /\ call' = Called("from_raw", ptr, 0, ptr \in DOMAIN heap, 0)
            /\ UNCHANGED <<src, rolled, other, par>>

NextRaw ==
    \/ RawSetName
    \/ IntoRaw
    \/ FromRaw

SpecRaw == InitRaw /\ [][NextRaw]_vars

\* C12: from_raw(into_raw(S)) has the elements, in their order, the name
\* and the cached dtype of S.
C12_RawRoundTrip ==
    (call.op = "from_raw" /\ call.ok) => Self = other[call.arg]

\* a named series of two elements with a cached dtype came back
C12_Witness ==
    /\ call.op = "from_raw"
    /\ call.ok
    /\ name # <<>>
    /\ dtype # NoDtype
    /\ Len(values) = 2

-----------------------------------------------------------------------------
(* Group-by: series.groupby(&keys).<aggregate>() with src the values and   *)
(* other the keys, both series of numbers                                  *)

\* the distinct keys in ascending order
DistinctKeysSorted(keys) == Ascending({keys[i] : i \in DOMAIN keys})

\* the distinct keys in the order they are first met
RECURSIVE DistinctKeys(_)
DistinctKeys(keys) ==
    IF Len(keys) = 0 THEN <<>>
    ELSE LET front == DistinctKeys(SubSeq(keys, 1, Len(keys) - 1))
             k == keys[Len(keys)]
         IN  IF \E j \in DOMAIN front : front[j] = k THEN front
             ELSE Append(front, k)

\* the values whose key is k, in their order
RECURSIVE GroupOf(_, _, _)
GroupOf(vals, keys, k) ==
    IF Len(vals) = 0 THEN <<>>
    ELSE LET rest == GroupOf(Tail(vals), Tail(keys), k)
         IN  IF Head(keys) = k THEN <<Head(vals)>> \o rest ELSE rest

GroupKinds == {"sum", "mean", "min", "max", "var"}

\* the aggregate of one group
GroupValue(kind, xs, ddof) ==
    CASE kind = "sum" -> FromInt(SliceSum(xs))
      [] kind = "mean" -> FDiv(FromInt(SliceSum(xs)), FromInt(Len(xs)))
      [] kind = "min" -> FromInt(FuncsMin(xs)[1])
      [] kind = "max" -> FromInt(FuncsMax(xs)[1])
      [] kind = "var" -> FuncsVariance(xs, ddof)[1]

\* groupby(&keys).<kind>(): a shape error for series of different lengths,
\* else one aggregate per distinct key
GroupBy(vals, keys, kind, ddof) ==
    IF Len(vals) # Len(keys) THEN [ok |-> FALSE, out |-> <<>>]
    ELSE LET ks == DistinctKeys(keys)
         IN  [ok |-> TRUE,
              out |-> [j \in DOMAIN ks |->
                          GroupValue(kind, GroupOf(vals, keys, ks[j]), ddof)]]

GroupVals == {1, 2, 3}
KeyVals == {4, 5, 6}

InitGroup ==
    /\ InitSeries({FromDataElements(<<>>)})
    /\ src \in SeqsUpTo(GroupVals, MaxGroupLen)
    /\ other \in SeqsUpTo(KeyVals, MaxGroupLen)
    /\ rolled = NoRoll
    /\ heap = NoHeap
    /\ par = NoPar

GroupCall(kind, ddofs) ==
    /\ Fresh
    /\ \E ddof \in ddofs :
          LET r == GroupBy(src, other, kind, ddof)
          IN  /\ call' = Called("groupby", kind, ddof, r.ok, r.out)
              /\ UNCHANGED <<values, dtype, name, src, rolled, other, heap, par>>

\* groupby(&keys).sum()
GroupSum == GroupCall("sum", {0})

\* groupby(&keys).mean()
GroupMean == GroupCall("mean", {0})

\* groupby(&keys).min()
GroupMin == GroupCall("min", {0})

\* groupby(&keys).max()
GroupMax == GroupCall("max", {0})

\* groupby(&keys).var(ddof)
GroupVar == GroupCall("var", Ddofs)

NextGroup ==
    \/ GroupSum
    \/ GroupMean
    \/ GroupMin
    \/ GroupMax
    \/ GroupVar

SpecGroup == InitGroup /\ [][NextGroup]_vars

\* the m-th smallest member of a set of positions
NthOf(P, m) == CHOOSE i \in P : Cardinality({h \in P : h < i}) = m - 1

\* the positions at which a key appears for the first time
FirstAt == { i \in DOMAIN other : \A h \in 1..(i - 1) : other[h] # other[i] }

\* the values whose key is the key at position i, in their order
ValuesKeyedLike(i) ==
    LET P == { h \in DOMAIN other : other[h] = other[i] }
    IN  [m \in 1..Cardinality(P) |-> src[NthOf(P, m)]]

-----------------------------------------------------------------------------
(* Series <op> Series: src is the left operand's elements, other the right *)
(* operand's, both floating point                                          *)

Inf(sign) == [k |-> "inf", p |-> sign, q |-> 1]

\* IEEE division of two finite or NaN operands, x/0 included; the sign of a
\* zero is not kept
ArithDiv(a, b) ==
    IF a.k = "nan" \/ b.k = "nan" THEN NaN
    ELSE IF b.p # 0 THEN Rat(a.p * b.q, a.q * b.p)
    ELSE IF a.p = 0 THEN NaN
    ELSE Inf(IF a.p < 0 THEN -1 ELSE 1)

ArithOps == {"add", "sub", "mul", "div"}

ArithOp(op, a, b) ==
    CASE op = "add" -> FAdd(a, b)
      [] op = "sub" -> FSub(a, b)
      [] op = "mul" -> FMul(a, b)
      [] op = "div" -> ArithDiv(a, b)

ShapeMismatch == "ShapeMismatch"

Shorter(m, n) == IF m < n THEN m ELSE n

\* an operator that pairs the elements up to the shorter operand's end
ArithTruncating(lhs, rhs, op) ==
    [ok |-> TRUE,
     out |-> [i \in 1..Shorter(Len(lhs), Len(rhs)) |-> ArithOp(op, lhs[i], rhs[i])]]

\* lhs <op> rhs: a shape error for operands of different lengths, else the
\* position-wise results
Arith(lhs, rhs, op) ==
    IF Len(lhs) # Len(rhs) THEN [ok |-> FALSE, out |-> ShapeMismatch]
    ELSE [ok |-> TRUE,
          out |-> [i \in DOMAIN lhs |-> ArithOp(op, lhs[i], rhs[i])]]

ArithVals == { FromInt(0), FromInt(-2), Rat(1, 2), NaN }

InitArith ==
    /\ InitSeries({FromDataElements(<<>>)})
    /\ src \in SeqsUpTo(ArithVals, MaxArithLen)
    /\ other \in SeqsUpTo(ArithVals, MaxArithLen)
    /\ rolled = NoRoll
    /\ heap = NoHeap
    /\ par = NoPar

ArithCall(op) ==
    /\ Fresh
    /\ LET r == Arith(src, other, op)
       IN  call' = Called("arith", op, 0, r.ok, r.out)
    /\ UNCHANGED <<values, dtype, name, src, rolled, other, heap, par>>

\* series1 + series2
AddCall == ArithCall("add")

\* series1 - series2
SubCall == ArithCall("sub")

\* series1 * series2
MulCall == ArithCall("mul")

\* series1 / series2
DivCall == ArithCall("div")

NextArith ==
    \/ AddCall
    \/ SubCall
    \/ MulCall
    \/ DivCall

SpecArith == InitArith /\ [][NextArith]_vars

\* C14: a Series-Series operator on operands of different lengths returns a
\* shape-mismatch error and no series; on operands of equal length n it
\* returns Ok with n elements, the i-th being the operator applied to the
\* i-th elements of the operands.
C14_ArithShape ==
    call.op = "arith" =>
        IF Len(src) # Len(other)
        THEN ~call.ok /\ call.out = ShapeMismatch
        ELSE /\ call.ok
             /\ Len(call.out) = Len(src)
             /\ \A i \in 1..Len(src) :
                   call.out[i] = ArithOp(call.arg, src[i], other[i])

\* an operator met operands of lengths 1 and 2
C14_Witness ==
    /\ call.op = "arith"
    /\ Len(src) = 1
    /\ Len(other) = 2
    /\ ~call.ok

-----------------------------------------------------------------------------
(* Rolling::median task by task: into_par_iter() hands each window index   *)
(* to a task, the tasks finish in any order, collect assembles the items   *)

\* the items laid out in the order the tasks finished
InCompletionOrder(done, order) == [j \in DOMAIN order |-> done[order[j]]]

\* the items laid out by the index of the range they came from, as collect
\* of an indexed parallel iterator lays them out
InIndexOrder(done, order) == [j \in DOMAIN order |-> done[j - 1]]

Running(window, bad) ==
    [phase |-> "running", window |-> window, bad |-> bad, done |-> <<>>,
     order |-> <<>>]

\* series.rolling(window).median() up to into_par_iter(): the usize
\* subtractions panic as in Roll, else one task per window is handed out
ParStart ==
    /\ par = NoPar
    /\ \E window \in 0..(MaxParLen + 2) :
          \E bad \in SUBSET WindowStarts(Len(src), window) :
              IF window = 0 \/ window > Len(src) + 1
              THEN /\ rolled' = Roll(src, window, "median", 0, bad)
                   /\ par' = [Running(window, bad) EXCEPT !.phase = "done"]
              ELSE /\ par' = Running(window, bad)
                   /\ UNCHANGED rolled
    /\ UNCHANGED <<values, dtype, name, call, src, other, heap>>

\* one task runs the closure on its window
ParTask ==
    /\ par.phase = "running"
    /\ \E idx \in WindowStarts(Len(src), par.window) \ DOMAIN par.done :
          LET item == IF idx \in par.bad THEN None
                      ELSE StatsMedian(WindowSlice(src, idx, par.window))
          IN  par' = [par EXCEPT !.done = Put(par.done, idx, item),
                                 !.order = Append(par.order, idx)]
    /\ UNCHANGED <<values, dtype, name, call, src, rolled, other, heap>>

\* .collect::<Result<Vec<f64>, _>>()? and Ok(Series::from_vec(vals)): once
\* every task has finished, or as soon as one has produced an Err
ParCollect ==
    /\ par.phase = "running"
    /\ LET all == DOMAIN par.done = WindowStarts(Len(src), par.window)
           failed == \E idx \in DOMAIN par.done : par.done[idx] = None
       IN  /\ all \/ failed
           /\ rolled' =
                [op |-> "median", window |-> par.window, ddof |-> 0,
                 bad |-> par.bad, ok |-> ~failed, panic |-> FALSE,
                 out |-> IF failed THEN <<>>
                         ELSE RollNans(par.window) \o
                              Collect(InIndexOrder(par.done, par.order)).vals]
    /\ par' = [par EXCEPT !.phase = "done"]
    /\ UNCHANGED <<values, dtype, name, call, src, other, heap>>

InitPar ==
    /\ InitSeries({FromDataElements(<<>>)})
    /\ src \in SeqsUpTo(RollVals, MaxParLen)
    /\ rolled = NoRoll
    /\ Unused

NextPar ==
    \/ ParStart
    \/ ParTask
    \/ ParCollect

SpecPar == InitPar /\ [][NextPar]_vars

\* C15: whatever order the per-window tasks of a rolling median finish in,
\* the result of the window starting at source index idx is at output
\* position idx + w - 1 (counted from 0), and the whole outcome is the one
\* of the sequential evaluation.
C15_ParallelMedianInOrder ==
    par.phase = "done" =>
        /\ rolled = Roll(src, par.window, "median", 0, par.bad)
        /\ rolled.ok =>
              \A idx \in WindowStarts(Len(src), par.window) :
                  rolled.out[idx + par.window] =
                      StatsMedian(WindowSlice(src, idx, par.window))[1]

\* three windows with three different medians, finished last to first
C15_Witness ==
    /\ par.phase = "done"
    /\ rolled.ok
    /\ src = <<1, 2, 6>>
    /\ par.window = 1
    /\ par.order = <<2, 1, 0>>
    /\ rolled.out = <<FromInt(1), FromInt(2), FromInt(6)>>

=============================================================================
